---- MODULE Spec2Model ----
(***************************************************************************)
(* Model of package render (render/render.go): Render, RenderPage,         *)
(* RenderStandalone and RenderError, with the collaborators they call      *)
(* (parsePath, pathsToTemplates, renderAt, ErrorCode, ErrorPath,           *)
(* assertReady, conf).                                                     *)
(*                                                                         *)
(* Strings and byte slices are sequences of one-character strings.  A Go   *)
(* []byte is a record [nil, b] so that a nil slice and an empty slice      *)
(* differ; a Go map is a record [nil, m] where m is a function from keys   *)
(* to values; a value is a record [html, s] where html tells whether its   *)
(* dynamic type is template.HTML.  An error is a record [code, tag]; the   *)
(* nil error is NilErr.                                                    *)
(***************************************************************************)
EXTENDS Integers, Sequences, FiniteSets, TLC

(***************************************************************************)
(* Bounds of the model.                                                    *)
(***************************************************************************)
\* Longest output a template execution may produce.
MaxLen == 4
\* Number of RenderPage attempts of one RenderError call that are logged.
MaxLog == 3

(***************************************************************************)
(* Strings.                                                                *)
(***************************************************************************)
RECURSIVE TrimLeft(_)
TrimLeft(s) ==
    IF s # <<>> /\ Head(s) = " " THEN TrimLeft(Tail(s)) ELSE s

RECURSIVE TrimRight(_)
TrimRight(s) ==
    IF s # <<>> /\ s[Len(s)] = " " THEN TrimRight(SubSeq(s, 1, Len(s) - 1)) ELSE s

\* strings.TrimSpace
TrimSpace(s) == TrimRight(TrimLeft(s))

DigitChar == <<"0", "1", "2", "3", "4", "5", "6", "7", "8", "9">>

\* strconv.Itoa for non-negative numbers
RECURSIVE Itoa(_)
Itoa(n) ==
    IF n < 10 THEN <<DigitChar[n + 1]>>
    ELSE Itoa(n \div 10) \o <<DigitChar[(n % 10) + 1]>>

(***************************************************************************)
(* Byte slices, values and maps.                                           *)
(***************************************************************************)
NilBytes == [nil |-> TRUE, b |-> <<>>]
Bytes(s) == [nil |-> FALSE, b |-> s]

\* template.HTML(s) and a value of any other type
HTML(s) == [html |-> TRUE, s |-> s]
Plain(s) == [html |-> FALSE, s |-> s]

EmptyFcn == [k \in {} |-> Plain(<<>>)]
NilMap == [nil |-> TRUE, m |-> EmptyFcn]
EmptyMap == [nil |-> FALSE, m |-> EmptyFcn]

\* data[k] = v
MapPut(d, k, v) ==
    [nil |-> FALSE,
     m |-> [j \in (DOMAIN d.m) \cup {k} |-> IF j = k THEN v ELSE d.m[j]]]

\* What a template reads under the "content" key of the bag.
ContentOf(d) ==
    IF "content" \in DOMAIN d.m THEN d.m["content"].s ELSE <<>>

\* html, _ := data["content"].(template.HTML)
ContentHTML(d) ==
    IF "content" \in DOMAIN d.m /\ d.m["content"].html
    THEN d.m["content"].s ELSE <<>>

(***************************************************************************)
(* Errors and their classification.                                        *)
(***************************************************************************)
NilErr == [code |-> 0, tag |-> 0]
\* The NotFound error of the package.
err404 == [code |-> 404, tag |-> 1]
\* Errors a template execution may fail with; code 0 is an error that
\* carries no status code.
ExecErrors == {[code |-> c, tag |-> 2] : c \in {0, 403, 500}}
Errors == {err404} \cup ExecErrors

\* The built-in message served when conf.UltimateFailure is unset.
err500ISE == <<"5", "0", "0">>

\* ErrorCode: the status code of an error, 500 when it has none.
ErrorCode(e) == IF e.code = 0 THEN 500 ELSE e.code

\* conf.CodePath: the configured code -> path overrides.
CodePath == (403 :> <<"f">>)

\* ErrorPath: the override for the error's code, else the code in decimal.
ErrorPath(e) ==
    IF ErrorCode(e) \in DOMAIN CodePath THEN CodePath[ErrorCode(e)]
    ELSE Itoa(ErrorCode(e))

(***************************************************************************)
(* Paths.                                                                  *)
(***************************************************************************)
ToLower(c) == IF c = "A" THEN "a" ELSE IF c = "B" THEN "b" ELSE c

RECURSIVE TrimSlashes(_)
TrimSlashes(p) ==
    IF p # <<>> /\ Head(p) = "/" THEN TrimSlashes(Tail(p))
    ELSE IF p # <<>> /\ p[Len(p)] = "/" THEN TrimSlashes(SubSeq(p, 1, Len(p) - 1))
    ELSE p

\* The normal form of a path: lower case, no leading or trailing separator.
NormalizePath(p) == TrimSlashes([i \in 1..Len(p) |-> ToLower(p[i])])

\* parsePath: the normalized path, or err404 when the path is empty, is not
\* registered, or the registry has no root layout.
parsePath(p, registry) ==
    LET q == NormalizePath(p) IN
    IF q = <<>> \/ q \notin registry \/ <<>> \notin registry
    THEN [path |-> <<>>, err |-> err404]
    ELSE [path |-> q, err |-> NilErr]

\* The path without its last segment.
RECURSIVE StripLast(_)
StripLast(p) ==
    IF p = <<>> THEN <<>>
    ELSE IF p[Len(p)] = "/" THEN SubSeq(p, 1, Len(p) - 1)
    ELSE StripLast(SubSeq(p, 1, Len(p) - 1))

\* pathsToTemplates: the page, then each enclosing layout up to the root.
RECURSIVE pathsToTemplates(_)
pathsToTemplates(p) ==
    IF p = <<>> THEN << <<>> >>
    ELSE <<p>> \o pathsToTemplates(StripLast(p))

(***************************************************************************)
(* The template executor.                                                  *)
(***************************************************************************)
\* What an existing template may write, given the content it is handed:
\* only whitespace, text of its own, or text of its own around the content
\* with whitespace on both sides.
TemplateOutputs(content) ==
    {o \in {<<" ">>, <<"x">>, <<" ", "x">> \o content \o <<" ">>} :
       Len(o) <= MaxLen}

\* renderAt: err404 when the template is not registered; otherwise the
\* execution fails with some error or produces some output.
renderAt(pt, d, registry) ==
    IF pt \notin registry
    THEN {[bytes |-> NilBytes, err |-> err404]}
    ELSE {[bytes |-> NilBytes, err |-> e] : e \in ExecErrors}
         \cup {[bytes |-> Bytes(o), err |-> NilErr] : o \in TemplateOutputs(ContentOf(d))}

(***************************************************************************)
(* Inputs.                                                                 *)
(***************************************************************************)
Root == <<>>
PageA == <<"a">>
PageAB == <<"a", "/", "b">>
Page404 == <<"4", "0", "4">>
Page500 == <<"5", "0", "0">>
PageF == <<"f">>

\* The page registries the model starts from.
Registries ==
    {{Root, PageA, PageAB},
     {Root, PageA, PageAB, Page404},
     {Root, PageA, PageAB, Page500},
     {Root, PageAB, Page404, Page500, PageF}}

\* The standalone registry.
StandaloneTemplates == {<<"$", "s">>}

\* Paths the entry points are called with.
RequestPaths == {PageAB, <<"A", "/", "b", "/">>, <<"z">>, <<>>}
StandalonePaths == {<<"$", "s">>, PageA}

\* Data bags the entry points are called with.
CallerBags ==
    {NilMap,
     MapPut(EmptyMap, "title", Plain(<<"t">>)),
     MapPut(MapPut(EmptyMap, "title", Plain(<<"t">>)), "content", Plain(<<"y">>))}

\* Values of conf.UltimateFailure.
UltimateFailures == {NilBytes, Bytes(<<"u">>)}

(***************************************************************************)
(* State.                                                                  *)
(***************************************************************************)
VARIABLES
    ready,            \* conf: setup has run
    Pages,            \* the page registry
    Standalone,       \* the standalone registry
    UltimateFailure,  \* conf.UltimateFailure
    entry,            \* the entry point the caller invoked
    pc,               \* position of the running call
    data,             \* the caller's data bag
    bag0,             \* the caller's data bag as it was passed in
    rsPath,           \* RenderStandalone: path argument
    rpCaller,         \* RenderPage: who called it
    rpPath,           \* RenderPage: path argument
    rpData,           \* RenderPage: the map it works on
    paths,            \* RenderPage: chain of template paths
    idx,              \* RenderPage: position in the chain
    rpRet,            \* RenderPage: its last return value
    reCaller,         \* RenderError: who called it
    reArgs,           \* RenderError: the arguments it was called with
    err,              \* RenderError: err
    lastErr,          \* RenderError: lastErr
    codes,            \* RenderError: codes
    bytes,            \* RenderError: bytes
    reRet,            \* RenderError: its return value
    ret,              \* return value of the top-level call
    attempts,         \* log of the RenderPage attempts of RenderError
    nAttempts,        \* number of those attempts, counted up to MaxLog + 1
    cur,              \* the latest of those attempts
    execLog,          \* renderAt invocations of the current RenderPage call
    prev              \* the RenderPage call before a repeated one

confVars == <<ready, Pages, Standalone, UltimateFailure>>
callVars == <<entry, data, bag0, rsPath>>
rpVars == <<rpCaller, rpPath, rpData, paths, idx, rpRet>>
reVars == <<reCaller, reArgs, err, lastErr, codes, bytes, reRet>>
logVars == <<attempts, nAttempts, cur, execLog, prev>>
vars == <<confVars, callVars, pc, rpVars, reVars, ret, logVars>>

NoRet == [bytes |-> NilBytes, err |-> NilErr]
NoArgs == [err |-> NilErr, data |-> NilMap]
NoPrev == [set |-> FALSE, bag0 |-> NilMap, bagAfter |-> NilMap, log |-> <<>>,
           ret |-> NoRet]
NoAttempt == [path |-> <<>>, trigger |-> NilErr, code |-> 0, seen |-> FALSE,
              result |-> "none"]

Init ==
    /\ ready \in BOOLEAN
    /\ Pages \in Registries
    /\ Standalone = StandaloneTemplates
    /\ UltimateFailure \in UltimateFailures
    /\ entry = "none"
    /\ pc = "idle"
    /\ data = NilMap
    /\ bag0 = NilMap
    /\ rsPath = <<>>
    /\ rpCaller = "none"
    /\ rpPath = <<>>
    /\ rpData = NilMap
    /\ paths = <<>>
    /\ idx = 0
    /\ rpRet = NoRet
    /\ reCaller = "none"
    /\ reArgs = NoArgs
    /\ err = NilErr
    /\ lastErr = NilErr
    /\ codes = {}
    /\ bytes = NilBytes
    /\ reRet = NoRet
    /\ ret = NoRet
    /\ attempts = <<>>
    /\ nAttempts = 0
    /\ cur = NoAttempt
    /\ execLog = <<>>
    /\ prev = NoPrev

(***************************************************************************)
(* Pieces of the functions.                                                *)
(***************************************************************************)
\* assertReady: panics unless setup has run.
assertReady == ready

\* The output is stored in a map that holds nothing else.
Enclose_DropsKeys(d, b) == MapPut(EmptyMap, "content", HTML(TrimSpace(b)))

\* The output is stored as it was produced.
Enclose_Untrimmed(d, b) == MapPut(d, "content", HTML(b))

\* Line 64: data["content"] = template.HTML(strings.TrimSpace(string(bytes)))
Enclose(d, b) == MapPut(d, "content", HTML(TrimSpace(b)))

\* Lines 122-137: the code an iteration registers: 500 for a repeated code.
Escalated(cs, code) == IF code \in cs THEN 500 ELSE code

\* The code is not registered.
Registered_Forgotten(cs, code) == cs

\* Line 140: codes[code] = true
Registered(cs, code) == cs \cup {code}

\* conf.UltimateFailure whether or not it has bytes.
FallbackBytes_Unchecked == UltimateFailure

\* Lines 127-132: conf.UltimateFailure if it has bytes, else the default
\* message.
FallbackBytes ==
    IF Len(UltimateFailure.b) > 0 THEN UltimateFailure ELSE Bytes(err500ISE)

(***************************************************************************)
(* Calls and returns.                                                      *)
(***************************************************************************)
\* RenderPage goes on with the map of the call before, if there was one.
EnterRenderPage_StaleMap(p, d, c) ==
    /\ rpCaller' = c
    /\ rpPath' = p
    /\ rpData' = IF rpData.nil THEN d ELSE rpData
    /\ paths' = <<>>
    /\ idx' = 0
    /\ pc' = "RenderPage_41"

\* Control enters RenderPage(p, d), called by c.
EnterRenderPage(p, d, c) ==
    /\ rpCaller' = c
    /\ rpPath' = p
    /\ rpData' = d
    /\ paths' = <<>>
    /\ idx' = 0
    /\ pc' = "RenderPage_41"

\* bytes starts as an empty slice instead of nil.
EnterRenderError_EmptyBytes(e, d, c) ==
    /\ reCaller' = c
    /\ reArgs' = [err |-> e, data |-> d]
    /\ err' = e
    /\ lastErr' = NilErr
    /\ codes' = {}
    /\ bytes' = Bytes(<<>>)
    /\ pc' = "RenderError_117"

\* Control enters RenderError(e, d), called by c (line 106).
EnterRenderError(e, d, c) ==
    /\ reCaller' = c
    /\ reArgs' = [err |-> e, data |-> d]
    /\ err' = e
    /\ lastErr' = NilErr
    /\ codes' = {}
    /\ bytes' = NilBytes
    /\ pc' = "RenderError_117"

\* The log entry of the latest attempt, completed with its outcome.
Outcome(a, r) ==
    [a EXCEPT !.result = IF r.err = NilErr THEN "ok" ELSE "fail"]

\* RenderPage returns (b, e) to its caller; in RenderError the result is
\* assigned to bytes and err (line 143).
RenderPageReturns(b, e) ==
    LET r == [bytes |-> b, err |-> e] IN
    /\ rpRet' = r
    /\ CASE rpCaller = "RenderError" ->
              /\ bytes' = b
              /\ err' = e
              /\ pc' = "RenderError_117"
              /\ cur' = Outcome(cur, r)
              /\ attempts' = IF nAttempts <= Len(attempts)
                             THEN [attempts EXCEPT ![nAttempts] = Outcome(@, r)]
                             ELSE attempts
              /\ UNCHANGED ret
         [] rpCaller = "Render" ->
              /\ pc' = "Render_30"
              /\ UNCHANGED <<bytes, err, ret, cur, attempts>>
         [] OTHER ->
              /\ ret' = r
              /\ pc' = "done"
              /\ UNCHANGED <<bytes, err, cur, attempts>>

\* The error is dropped once a page has rendered.
RenderErrorReturns_ClearsError(b, e) ==
    LET r == [bytes |-> b, err |-> IF err = NilErr THEN NilErr ELSE e] IN
    /\ reRet' = r
    /\ IF reCaller = "Render"
       THEN pc' = "Render_31" /\ UNCHANGED ret
       ELSE pc' = "done" /\ ret' = r

\* RenderError returns (b, e) to its caller (line 146).
RenderErrorReturns(b, e) ==
    LET r == [bytes |-> b, err |-> e] IN
    /\ reRet' = r
    /\ IF reCaller = "Render"
       THEN pc' = "Render_31" /\ UNCHANGED ret
       ELSE pc' = "done" /\ ret' = r

(***************************************************************************)
(* Render (lines 25-35).                                                   *)
(***************************************************************************)
\* Lines 26-28: the readiness check, then the call of RenderPage.
Render(p, d) ==
    /\ pc = "idle"
    /\ entry' = "Render"
    /\ data' = d
    /\ bag0' = d
    /\ rsPath' = <<>>
    /\ IF ~assertReady
       THEN pc' = "panic" /\ UNCHANGED rpVars
       ELSE EnterRenderPage(p, d, "Render") /\ UNCHANGED rpRet
    /\ UNCHANGED <<confVars, reVars, ret, logVars>>

\* Lines 30-34: RenderPage has returned.
RenderAfterPage ==
    /\ pc = "Render_30"
    /\ IF rpRet.err # NilErr
       THEN /\ EnterRenderError(rpRet.err, data, "Render")
            /\ UNCHANGED <<reRet, ret>>
       ELSE /\ ret' = [bytes |-> rpRet.bytes, err |-> NilErr]
            /\ pc' = "done"
            /\ UNCHANGED reVars
    /\ UNCHANGED <<confVars, callVars, rpVars, logVars>>

\* The bytes of RenderError are returned with a nil error.
RenderReturn_NilError ==
    /\ pc = "Render_31"
    /\ ret' = [bytes |-> reRet.bytes, err |-> NilErr]
    /\ pc' = "done"
    /\ UNCHANGED <<confVars, callVars, rpVars, reVars, logVars>>

\* Line 31: RenderError has returned; its result is returned.
RenderReturn ==
    /\ pc = "Render_31"
    /\ ret' = reRet
    /\ pc' = "done"
    /\ UNCHANGED <<confVars, callVars, rpVars, reVars, logVars>>

(***************************************************************************)
(* RenderPage (lines 40-71).                                               *)
(***************************************************************************)
\* A caller invokes RenderPage directly.
CallRenderPage(p, d) ==
    /\ pc = "idle"
    /\ entry' = "RenderPage"
    /\ data' = d
    /\ bag0' = d
    /\ rsPath' = <<>>
    /\ EnterRenderPage(p, d, "top")
    /\ UNCHANGED <<confVars, rpRet, reVars, ret, logVars>>

\* After a successful RenderPage the caller invokes it again with the same
\* path, and with the bag as the call left it or a bag equal to the one the
\* call was given.
RepeatRenderPage(d) ==
    /\ pc = "done"
    /\ entry = "RenderPage"
    /\ ret.err = NilErr
    /\ ~prev.set
    /\ prev' = [set |-> TRUE, bag0 |-> bag0, bagAfter |-> data, log |-> execLog,
                ret |-> ret]
    /\ data' = d
    /\ bag0' = d
    /\ EnterRenderPage(rpPath, d, "top")
    /\ UNCHANGED <<confVars, entry, rsPath, rpRet, reVars, ret, attempts,
                   nAttempts, cur, execLog>>

\* The resolver's error is replaced by an error without a status code.
RenderPage_OtherError ==
    /\ pc = "RenderPage_41"
    /\ execLog' = <<>>
    /\ IF ~assertReady
       THEN /\ pc' = "panic"
            /\ UNCHANGED <<rpVars, reVars, ret, attempts, nAttempts, cur>>
       ELSE LET d == IF rpData.nil THEN EmptyMap ELSE rpData
                r == parsePath(rpPath, Pages)
            IN  IF r.err # NilErr
                THEN /\ RenderPageReturns(NilBytes, [code |-> 0, tag |-> 2])
                     /\ rpData' = d
                     /\ UNCHANGED <<rpCaller, rpPath, paths, idx>>
                     /\ UNCHANGED <<reCaller, reArgs, lastErr, codes, reRet, nAttempts>>
                ELSE /\ rpData' = d
                     /\ rpPath' = r.path
                     /\ paths' = pathsToTemplates(r.path)
                     /\ idx' = 1
                     /\ pc' = "RenderPage_58"
                     /\ UNCHANGED <<rpCaller, rpRet, reVars, ret, attempts, nAttempts, cur>>
    /\ UNCHANGED <<confVars, callVars, prev>>

\* Lines 41-55: readiness check, nil map check, parsePath, pathsToTemplates.
RenderPage ==
    /\ pc = "RenderPage_41"
    /\ execLog' = <<>>
    /\ IF ~assertReady
       THEN /\ pc' = "panic"
            /\ UNCHANGED <<rpVars, reVars, ret, attempts, nAttempts, cur>>
       ELSE LET d == IF rpData.nil THEN EmptyMap ELSE rpData
                r == parsePath(rpPath, Pages)
            IN  IF r.err # NilErr
                THEN /\ RenderPageReturns(NilBytes, r.err)
                     /\ rpData' = d
                     /\ UNCHANGED <<rpCaller, rpPath, paths, idx>>
                     /\ UNCHANGED <<reCaller, reArgs, lastErr, codes, reRet, nAttempts>>
                ELSE /\ rpData' = d
                     /\ rpPath' = r.path
                     /\ paths' = pathsToTemplates(r.path)
                     /\ idx' = 1
                     /\ pc' = "RenderPage_58"
                     /\ UNCHANGED <<rpCaller, rpRet, reVars, ret, attempts, nAttempts, cur>>
    /\ UNCHANGED <<confVars, callVars, prev>>

\* A failed template is skipped and the composition goes on.
RenderPageStep_Continue ==
    /\ pc = "RenderPage_58"
    /\ idx <= Len(paths)
    /\ \E r \in renderAt(paths[idx], rpData, Pages) :
         /\ execLog' = Append(execLog, [id |-> paths[idx],
                                        content |-> ContentOf(rpData),
                                        bag |-> rpData,
                                        res |-> r])
         /\ rpData' = IF r.err # NilErr THEN rpData ELSE Enclose(rpData, r.bytes.b)
         /\ data' = IF data.nil THEN data ELSE rpData'
         /\ idx' = idx + 1
         /\ UNCHANGED <<pc, rpCaller, rpPath, paths, rpRet, reVars, ret,
                        attempts, nAttempts, cur>>
    /\ UNCHANGED <<confVars, entry, bag0, rsPath, prev>>

\* Lines 58-65: one iteration of the loop over the chain.
RenderPageStep ==
    /\ pc = "RenderPage_58"
    /\ idx <= Len(paths)
    /\ \E r \in renderAt(paths[idx], rpData, Pages) :
         /\ execLog' = Append(execLog, [id |-> paths[idx],
                                        content |-> ContentOf(rpData),
                                        bag |-> rpData,
                                        res |-> r])
         /\ IF r.err # NilErr
            THEN /\ RenderPageReturns(NilBytes, r.err)
                 /\ UNCHANGED <<rpCaller, rpPath, rpData, paths, idx, data>>
                 /\ UNCHANGED <<reCaller, reArgs, lastErr, codes, reRet, nAttempts>>
            ELSE /\ rpData' = Enclose(rpData, r.bytes.b)
                 /\ data' = IF data.nil THEN data ELSE rpData'
                 /\ idx' = idx + 1
                 /\ UNCHANGED <<pc, rpCaller, rpPath, paths, rpRet, reVars, ret,
                                attempts, nAttempts, cur>>
    /\ UNCHANGED <<confVars, entry, bag0, rsPath, prev>>

\* Lines 68-70: the chain is exhausted; the content is returned.
RenderPageFinish ==
    /\ pc = "RenderPage_58"
    /\ idx > Len(paths)
    /\ RenderPageReturns(Bytes(ContentHTML(rpData)), NilErr)
    /\ UNCHANGED <<rpCaller, rpPath, rpData, paths, idx>>
    /\ UNCHANGED <<reCaller, reArgs, lastErr, codes, reRet, nAttempts>>
    /\ UNCHANGED <<confVars, callVars, execLog, prev>>

(***************************************************************************)
(* RenderStandalone (lines 75-84).                                         *)
(***************************************************************************)
\* A path missing from the standalone registry is looked up among the pages.
RenderStandalone_FallsBack(p, d) ==
    /\ pc = "idle"
    /\ entry' = "RenderStandalone"
    /\ data' = d
    /\ bag0' = d
    /\ rsPath' = p
    /\ IF ~assertReady
       THEN pc' = "panic" /\ UNCHANGED <<ret, execLog>>
       ELSE IF p \notin Standalone /\ p \notin Pages
       THEN /\ ret' = [bytes |-> NilBytes, err |-> err404]
            /\ pc' = "done"
            /\ UNCHANGED execLog
       ELSE \E r \in renderAt(p, d, IF p \in Standalone THEN Standalone ELSE Pages) :
            /\ execLog' = Append(execLog, [id |-> p, content |-> ContentOf(d),
                                           bag |-> d, res |-> r])
            /\ ret' = r
            /\ pc' = "done"
    /\ UNCHANGED <<confVars, rpVars, reVars, attempts, nAttempts, cur, prev>>

\* Lines 76-83: readiness check, lookup, execution of the template.
RenderStandalone(p, d) ==
    /\ pc = "idle"
    /\ entry' = "RenderStandalone"
    /\ data' = d
    /\ bag0' = d
    /\ rsPath' = p
    /\ IF ~assertReady
       THEN pc' = "panic" /\ UNCHANGED <<ret, execLog>>
       ELSE IF p \notin Standalone
       THEN /\ ret' = [bytes |-> NilBytes, err |-> err404]
            /\ pc' = "done"
            /\ UNCHANGED execLog
       ELSE \E r \in renderAt(p, d, Standalone) :
            /\ execLog' = Append(execLog, [id |-> p, content |-> ContentOf(d),
                                           bag |-> d, res |-> r])
            /\ ret' = r
            /\ pc' = "done"
    /\ UNCHANGED <<confVars, rpVars, reVars, attempts, nAttempts, cur, prev>>

(***************************************************************************)
(* RenderError (lines 104-147).                                            *)
(***************************************************************************)
\* A caller invokes RenderError directly.
CallRenderError(e, d) ==
    /\ pc = "idle"
    /\ entry' = "RenderError"
    /\ data' = d
    /\ bag0' = d
    /\ rsPath' = <<>>
    /\ EnterRenderError(e, d, "top")
    /\ UNCHANGED <<confVars, rpVars, reRet, ret, logVars>>

\* The loop variable err is returned in place of lastErr.
RenderErrorReturn_Err ==
    /\ pc = "RenderError_117"
    /\ err = NilErr
    /\ RenderErrorReturns(bytes, err)
    /\ UNCHANGED <<reCaller, reArgs, err, lastErr, codes, bytes>>
    /\ UNCHANGED <<confVars, callVars, rpVars, logVars>>

\* Lines 117, 146: err is nil, the loop ends and the results are returned.
RenderErrorReturn ==
    /\ pc = "RenderError_117"
    /\ err = NilErr
    /\ RenderErrorReturns(bytes, lastErr)
    /\ UNCHANGED <<reCaller, reArgs, err, lastErr, codes, bytes>>
    /\ UNCHANGED <<confVars, callVars, rpVars, logVars>>

\* lastErr is not updated in the iteration that falls back.
RenderErrorFallback_StaleLastErr ==
    /\ pc = "RenderError_117"
    /\ err # NilErr
    /\ ErrorCode(err) \in codes
    /\ ErrorCode(err) = 500
    /\ bytes' = FallbackBytes
    /\ RenderErrorReturns(bytes', lastErr)
    /\ UNCHANGED <<reCaller, reArgs, err, lastErr, codes>>
    /\ UNCHANGED <<confVars, callVars, rpVars, logVars>>

\* Lines 117-133, 146: code 500 is repeated; fall back on bytes.
RenderErrorFallback ==
    /\ pc = "RenderError_117"
    /\ err # NilErr
    /\ ErrorCode(err) \in codes
    /\ ErrorCode(err) = 500
    /\ lastErr' = err
    /\ bytes' = FallbackBytes
    /\ RenderErrorReturns(bytes', lastErr')
    /\ UNCHANGED <<reCaller, reArgs, err, codes>>
    /\ UNCHANGED <<confVars, callVars, rpVars, logVars>>

\* Lines 117-122, 135-143: register the code and try to render a page.
RenderErrorAttempt ==
    /\ pc = "RenderError_117"
    /\ err # NilErr
    /\ ~(ErrorCode(err) \in codes /\ ErrorCode(err) = 500)
    /\ LET code == Escalated(codes, ErrorCode(err))
           a == [path |-> ErrorPath(err), trigger |-> err,
                 code |-> ErrorCode(err), seen |-> ErrorCode(err) \in codes,
                 result |-> "pending"]
       IN  /\ lastErr' = err
           /\ codes' = Registered(codes, code)
           /\ EnterRenderPage(ErrorPath(err), data, "RenderError")
           /\ cur' = a
           /\ attempts' = IF Len(attempts) < MaxLog THEN Append(attempts, a)
                          ELSE attempts
           /\ nAttempts' = IF nAttempts <= MaxLog THEN nAttempts + 1 ELSE nAttempts
    /\ UNCHANGED <<reCaller, reArgs, err, bytes, reRet>>
    /\ UNCHANGED <<confVars, callVars, rpRet, ret, execLog, prev>>

(***************************************************************************)
(* The caller.                                                             *)
(***************************************************************************)
\* The call is over; the caller may make another one.
Reset ==
    /\ pc \in {"done", "panic"}
    /\ entry' = "none"
    /\ pc' = "idle"
    /\ data' = NilMap
    /\ bag0' = NilMap
    /\ rsPath' = <<>>
    /\ rpCaller' = "none"
    /\ rpPath' = <<>>
    /\ rpData' = NilMap
    /\ paths' = <<>>
    /\ idx' = 0
    /\ rpRet' = NoRet
    /\ reCaller' = "none"
    /\ reArgs' = NoArgs
    /\ err' = NilErr
    /\ lastErr' = NilErr
    /\ codes' = {}
    /\ bytes' = NilBytes
    /\ reRet' = NoRet
    /\ ret' = NoRet
    /\ attempts' = <<>>
    /\ nAttempts' = 0
    /\ cur' = NoAttempt
    /\ execLog' = <<>>
    /\ prev' = NoPrev
    /\ UNCHANGED confVars

Next ==
    \/ \E p \in RequestPaths, d \in CallerBags : Render(p, d)
    \/ RenderAfterPage
    \/ RenderReturn
    \/ \E p \in RequestPaths, d \in CallerBags : CallRenderPage(p, d)
    \/ \E d \in {data, bag0} : RepeatRenderPage(d)
    \/ RenderPage
    \/ RenderPageStep
    \/ RenderPageFinish
    \/ \E p \in StandalonePaths, d \in CallerBags : RenderStandalone(p, d)
    \/ \E e \in Errors \cup {NilErr}, d \in CallerBags : CallRenderError(e, d)
    \/ RenderErrorReturn
    \/ RenderErrorFallback
    \/ RenderErrorAttempt
    \/ Reset

Spec == Init /\ [][Next]_vars

\* The running call is always given its next step.
FairSpec == Spec /\ WF_vars(Next)

TypeOK ==
    /\ pc \in {"idle", "done", "panic", "Render_30", "Render_31",
               "RenderPage_41", "RenderPage_58", "RenderError_117"}
    /\ nAttempts \in 0..(MaxLog + 1)
    /\ Len(attempts) <= MaxLog

(***************************************************************************)
(* Properties.                                                             *)
(***************************************************************************)
\* The error page paths of codes 404 and 500.
Path404 == ErrorPath(err404)
Path500 == ErrorPath([code |-> 500, tag |-> 2])

\* RenderError is running or has returned, and was given a non-nil error.
InCascade == reCaller # "none" /\ reArgs.err # NilErr

\* C1: RenderError terminates for every non-nil initial error and every
\* sequence of outcomes of its RenderPage attempts: once its loop is
\* entered, the call eventually returns (or panics).
C1_RenderErrorTerminates ==
    (pc = "RenderError_117" /\ reArgs.err # NilErr) ~> (pc \in {"done", "panic"})

\* C2: with the pages of 404 and 500 both missing, RenderError started with
\* the NotFound error attempts the 404 page, which fails, then the 500 page,
\* which fails, makes no third attempt, and returns the fallback bytes with
\* a lastErr of code 500.
C2_Escalation ==
    (InCascade /\ ready /\ reArgs.err = err404
       /\ Path404 \notin Pages /\ Path500 \notin Pages) =>
        /\ Len(attempts) >= 1 =>
              attempts[1].path = Path404 /\ attempts[1].result # "ok"
        /\ Len(attempts) >= 2 =>
              attempts[2].path = Path500 /\ attempts[2].result # "ok"
        /\ nAttempts <= 2
        /\ pc = "done" =>
              /\ nAttempts = 2
              /\ ret.bytes = (IF UltimateFailure.b # <<>> THEN UltimateFailure
                              ELSE Bytes(err500ISE))
              /\ ErrorCode(ret.err) = 500

\* C3: an attempt triggered by an error of code 404 while 404 is already
\* recorded as seen is made on the error path of 500, not on that of 404.
C3_Repeated404GoesTo500 ==
    \A i \in 1..Len(attempts) :
        (attempts[i].code = 404 /\ attempts[i].seen) =>
            attempts[i].path = Path500 /\ attempts[i].path # Path404

CascadeReturned ==
    /\ pc = "done"
    /\ \/ entry = "Render"
       \/ entry = "RenderError" /\ reArgs.err # NilErr

\* RenderError left its loop through the break of line 133.
FellBack == reCaller # "none" /\ err # NilErr

\* C5 as stated: whenever Render or RenderError (given a non-nil error)
\* returns, the returned bytes are non-empty.
C5_NonEmptyBytes == CascadeReturned => Len(ret.bytes.b) > 0

\* C5 amended: the returned bytes are either the static fallback, which is
\* non-empty, or the trimmed output of the root layout of the page that
\* rendered, which is empty when that layout wrote only whitespace or
\* nothing.
C5_FallbackOrRendered ==
    CascadeReturned =>
        IF FellBack
        THEN /\ ret.bytes \in {UltimateFailure, Bytes(err500ISE)}
             /\ Len(ret.bytes.b) > 0
        ELSE /\ execLog # <<>>
             /\ LET last == execLog[Len(execLog)] IN
                  /\ last.id = Root
                  /\ last.res.err = NilErr
                  /\ ret.bytes = Bytes(TrimSpace(last.res.bytes.b))

\* RenderError has returned the empty output of an error page whose root
\* layout wrote only whitespace.
C5_Witness ==
    /\ pc = "done"
    /\ entry = "RenderError"
    /\ reArgs.err # NilErr
    /\ ~FellBack
    /\ cur.result = "ok"
    /\ execLog[Len(execLog)].res.bytes.b = <<" ">>
    /\ ret.bytes = Bytes(<<>>)

\* C6: when an attempt of RenderError has succeeded, the next step of the
\* call is its return, with the bytes of that attempt and the error that
\* triggered it; no further attempt is made.
C6_SuccessReturnsAtOnce ==
    [][(pc = "RenderError_117" /\ cur.result = "ok") =>
          /\ pc' \in {"done", "Render_31"}
          /\ reRet' = [bytes |-> rpRet.bytes, err |-> cur.trigger]
          /\ reCaller = "top" => ret' = reRet'
          /\ nAttempts' = nAttempts]_vars

\* RenderError has returned after its second or later attempt succeeded.
C6_Witness ==
    /\ pc = "done"
    /\ entry = "RenderError"
    /\ cur.result = "ok"
    /\ nAttempts >= 2
    /\ ret.err # reArgs.err
    /\ ret.err = cur.trigger

\* C7: when an error of code 500 occurs while 500 is recorded as seen, the
\* call returns without a further attempt; the bytes are
\* conf.UltimateFailure when it is non-empty and the default message
\* otherwise, and lastErr is that error.
C7_Double500FallsBack ==
    [][(pc = "RenderError_117" /\ err # NilErr
          /\ ErrorCode(err) = 500 /\ 500 \in codes) =>
          /\ pc' \in {"done", "Render_31"}
          /\ reRet'.bytes = (IF UltimateFailure.b # <<>> THEN UltimateFailure
                             ELSE Bytes(err500ISE))
          /\ reRet'.err = err
          /\ nAttempts' = nAttempts]_vars

\* RenderError has fallen back on the bytes, after two errors of code 500
\* that are not the same error.
C7_Witness ==
    /\ pc = "done"
    /\ FellBack
    /\ ErrorCode(ret.err) = 500
    /\ ret.err # cur.trigger
    /\ ErrorCode(cur.trigger) = 500

\* C8: Render returns (b, nil) exactly when its RenderPage call succeeds
\* with b, and then RenderError is not invoked; when RenderPage fails with
\* e, Render invokes RenderError(e, data) with the same bag and returns its
\* result, whose error is non-nil.
C8_RenderDelegates ==
    [][/\ (pc = "Render_30" /\ rpRet.err = NilErr) =>
             /\ pc' = "done"
             /\ ret' = [bytes |-> rpRet.bytes, err |-> NilErr]
             /\ reCaller' = "none"
       /\ (pc = "Render_30" /\ rpRet.err # NilErr) =>
             /\ pc' = "RenderError_117"
             /\ reCaller' = "Render"
             /\ reArgs' = [err |-> rpRet.err, data |-> data]
             /\ err' = rpRet.err
       /\ pc = "Render_31" =>
             /\ pc' = "done"
             /\ ret' = reRet
             /\ ret'.err # NilErr
       /\ (entry = "Render" /\ pc' = "done") =>
             (ret'.err = NilErr <=> reCaller' = "none")]_vars

\* Render has returned the result of RenderError, called with a bag of the
\* caller.
C8_Witness ==
    /\ pc = "done"
    /\ entry = "Render"
    /\ reCaller = "Render"
    /\ ~reArgs.data.nil
    /\ ret = reRet
    /\ ret.err # NilErr

\* The latest call of RenderPage has returned.
PageReturned ==
    /\ rpCaller # "none"
    /\ pc \in {"done", "Render_30", "Render_31", "RenderError_117"}

\* C9: a successful RenderPage has executed the templates of the chain once
\* each, leaf first; each template after the leaf saw the trimmed output of
\* the one before under "content"; the returned bytes are the trimmed
\* output of the root layout.
C9_ChainComposition ==
    (PageReturned /\ rpRet.err = NilErr) =>
        /\ paths # <<>>
        /\ paths[1] = rpPath
        /\ paths[Len(paths)] = Root
        /\ Len(execLog) = Len(paths)
        /\ \A k \in 1..Len(paths) :
              /\ execLog[k].id = paths[k]
              /\ execLog[k].res.err = NilErr
              /\ k > 1 => execLog[k].content = TrimSpace(execLog[k - 1].res.bytes.b)
        /\ rpRet.bytes = Bytes(TrimSpace(execLog[Len(paths)].res.bytes.b))

\* RenderPage has composed a chain of three templates whose outputs carried
\* surrounding whitespace.
C9_Witness ==
    /\ pc = "done"
    /\ entry = "RenderPage"
    /\ ret.err = NilErr
    /\ Len(execLog) = 3
    /\ execLog[1].res.bytes.b # TrimSpace(execLog[1].res.bytes.b)
    /\ execLog[3].res.bytes.b # TrimSpace(execLog[3].res.bytes.b)
    /\ Len(ret.bytes.b) >= 2

\* C10: when the execution of a template of the chain fails, no later
\* template is executed and RenderPage returns nil bytes with that error.
C10_ExecFailureAborts ==
    (rpCaller # "none" /\ pc # "RenderPage_41") =>
        \A k \in 1..Len(execLog) :
            execLog[k].res.err # NilErr =>
                /\ k = Len(execLog)
                /\ PageReturned
                /\ rpRet = [bytes |-> NilBytes, err |-> execLog[k].res.err]

\* RenderPage has returned the error of the second of three templates.
C10_Witness ==
    /\ pc = "done"
    /\ entry = "RenderPage"
    /\ Len(paths) = 3
    /\ Len(execLog) = 2
    /\ execLog[2].res.err \in ExecErrors
    /\ ret = [bytes |-> NilBytes, err |-> execLog[2].res.err]

\* C11: when parsePath fails in RenderPage, its error is returned unchanged
\* with nil bytes, no template is executed and the caller's bag is left as
\* it was passed in.
C11_ResolveFailureReturns ==
    [][(pc = "RenderPage_41" /\ ready /\ parsePath(rpPath, Pages).err # NilErr) =>
          /\ rpRet' = [bytes |-> NilBytes, err |-> parsePath(rpPath, Pages).err]
          /\ execLog' = <<>>
          /\ data' = data
          /\ data' = bag0 \/ entry # "RenderPage"
          /\ pc' # "RenderPage_58"]_vars

\* RenderPage, called with a bag that has a "content" key, has returned the
\* resolver's error.
C11_Witness ==
    /\ pc = "done"
    /\ entry = "RenderPage"
    /\ paths = <<>>
    /\ ret = [bytes |-> NilBytes, err |-> err404]
    /\ execLog = <<>>
    /\ "content" \in DOMAIN data.m
    /\ data = bag0

\* C12: RenderStandalone called with a path that is not in the standalone
\* registry returns nil bytes and the NotFound error and executes no
\* template, also when the page registry has a page at that path.
C12_StandaloneNotFound ==
    (entry = "RenderStandalone" /\ pc = "done" /\ rsPath \notin Standalone) =>
        /\ ret = [bytes |-> NilBytes, err |-> err404]
        /\ execLog = <<>>
        /\ data = bag0

\* RenderStandalone has failed for a path that is registered as a page.
C12_Witness ==
    /\ entry = "RenderStandalone"
    /\ pc = "done"
    /\ rsPath \notin Standalone
    /\ rsPath \in Pages
    /\ ret.err = err404

\* C13: before setup no entry point returns normally, and none classifies
\* an error, registers a code, attempts a page or executes a template
\* before it fails.
C13_FailFastBeforeSetup ==
    ~ready =>
        /\ pc # "done"
        /\ lastErr = NilErr
        /\ codes = {}
        /\ nAttempts = 0
        /\ execLog = <<>>

\* The results of the two logs agree with an executor whose result is a
\* function of the template and of the contents of the bag.
Functional(l1, l2) ==
    \A i \in 1..Len(l1), j \in 1..Len(l2) :
        (l1[i].id = l2[j].id /\ l1[i].bag = l2[j].bag) => l1[i].res = l2[j].res

\* A repeated RenderPage call has returned.
Repeated == prev.set /\ pc = "done" /\ entry = "RenderPage"

\* C14 as stated: a second RenderPage call with the same path and the bag
\* as the first call left it returns what the first call returned, when the
\* executor is a function of the template and the bag.
C14_IdempotentOnLeftBag ==
    (Repeated /\ bag0 = prev.bagAfter /\ Functional(prev.log, execLog)
       /\ ret.err = NilErr) =>
        ret.bytes = prev.ret.bytes

\* C14 amended: a second RenderPage call with the same path and a bag equal
\* to the one the first call was given returns what the first call
\* returned, when the executor is a function of the template and the bag.
C14_IdempotentOnEqualBag ==
    (Repeated /\ bag0 = prev.bag0 /\ Functional(prev.log, execLog)) =>
        ret = prev.ret

\* Two calls with equal non-nil bags have composed the same three templates
\* into the same non-empty output, and the first call had changed its bag.
C14_Witness ==
    /\ Repeated
    /\ ~bag0.nil
    /\ bag0 = prev.bag0
    /\ bag0 # prev.bagAfter
    /\ Functional(prev.log, execLog)
    /\ Len(execLog) = 3
    /\ ret = prev.ret
    /\ Len(ret.bytes.b) >= 2

\* C15: after a successful RenderPage call with a non-nil bag of the
\* caller, the bag holds the returned bytes under "content", as
\* template.HTML, and every other key is as the caller passed it.
C15_ContentHoldsOutput ==
    (PageReturned /\ rpRet.err = NilErr /\ ~bag0.nil) =>
        /\ DOMAIN data.m = (DOMAIN bag0.m) \cup {"content"}
        /\ data.m["content"] = [html |-> TRUE, s |-> rpRet.bytes.b]
        /\ \A k \in (DOMAIN bag0.m) \ {"content"} : data.m[k] = bag0.m[k]

\* RenderPage has returned a composed output to a caller whose bag had a
\* "content" key and a "title" key.
C15_Witness ==
    /\ pc = "done"
    /\ entry = "RenderPage"
    /\ ret.err = NilErr
    /\ DOMAIN bag0.m = {"content", "title"}
    /\ Len(ret.bytes.b) >= 2
    /\ data.m["content"].s = ret.bytes.b
    /\ data.m["content"] # bag0.m["content"]
    /\ data.m["title"] = bag0.m["title"]

\* C16: in a Render call with a non-nil bag, the leaf template of every
\* error page the cascade attempts is executed with the "content" key as
\* the caller supplied it.
C16_NoContentLeak ==
    (entry = "Render" /\ ~bag0.nil /\ rpCaller = "RenderError"
       /\ pc # "RenderPage_41" /\ execLog # <<>>) =>
        /\ execLog[1].content = ContentOf(bag0)
        /\ ("content" \in DOMAIN execLog[1].bag.m) = ("content" \in DOMAIN bag0.m)

\* C17: RenderError returns the static bytes only after an attempt on the
\* 500 error path was made in the same call and failed.
C17_FallbackAfter500Page ==
    (FellBack /\ pc \in {"done", "Render_31"} /\ nAttempts <= MaxLog) =>
        \E i \in 1..Len(attempts) :
            attempts[i].path = Path500 /\ attempts[i].result = "fail"

\* C18: the attempts of one RenderError call are made on pairwise different
\* error page paths.
C18_OneAttemptPerPath ==
    \A i, j \in 1..Len(attempts) :
        i < j => attempts[i].path # attempts[j].path

\* RenderError has returned.
RenderErrorReturned == reCaller # "none" /\ pc \in {"done", "Render_31"}

\* C19: RenderError returns a nil lastErr exactly when it was called with a
\* nil error; otherwise lastErr is the error the last iteration of the loop
\* started with, also when that iteration rendered a page; Render returns a
\* non-nil error whenever it called RenderError.
C19_LastErrNilOnlyForNil ==
    RenderErrorReturned =>
        /\ (reRet.err = NilErr) <=> (reArgs.err = NilErr)
        /\ reArgs.err # NilErr =>
              reRet.err = (IF err # NilErr THEN err ELSE cur.trigger)
        /\ (entry = "Render" /\ pc = "done") => ret.err # NilErr

\* Render has returned a rendered error page together with a non-nil error.
C19_Witness ==
    /\ pc = "done"
    /\ entry = "Render"
    /\ reCaller = "Render"
    /\ cur.result = "ok"
    /\ err = NilErr
    /\ ~ret.bytes.nil
    /\ ret.err # NilErr

\* C20: RenderError called with a nil error returns nil bytes and a nil
\* lastErr at once: it attempts no page, executes no template, registers no
\* code and leaves the bag as it was passed in.
C20_NilErrorDoesNothing ==
    [][(pc = "RenderError_117" /\ reArgs.err = NilErr) =>
          /\ pc' = "done"
          /\ ret' = [bytes |-> NilBytes, err |-> NilErr]
          /\ codes = {} /\ codes' = {}
          /\ data' = bag0
          /\ nAttempts' = 0
          /\ rpCaller' = "none"
          /\ execLog' = <<>>]_vars

\* RenderError, called with a nil error and a bag that has a "content" key,
\* has returned.
C20_Witness ==
    /\ pc = "done"
    /\ entry = "RenderError"
    /\ reArgs.err = NilErr
    /\ "content" \in DOMAIN data.m
    /\ data = bag0
    /\ ret.bytes.nil
    /\ ret.err = NilErr

====
